---- MODULE Spec2Model ----
(***************************************************************************)
(* Model of the AI Image Studio: TextToImage.py (ImageGenerator, the model *)
(* catalog and its helpers) and app.py (the Streamlit page's Generate and  *)
(* Clear handlers with the session history).                               *)
(*                                                                         *)
(* Strings the code inspects character by character (prompts, tokens) are  *)
(* sequences of one-character strings.  Callers run concurrently: every    *)
(* Streamlit session runs main() in a thread of its own and other code may *)
(* use ImageGenerator directly; they share the clock, the output directory *)
(* and the environment.                                                    *)
(***************************************************************************)
EXTENDS Integers, Sequences, FiniteSets, TLC

\* ------------------------------------------------------------------ bounds
MaxClock == 1       \* seconds the wall clock can advance
MaxCount == 2       \* successful generations per session
MaxLen   == 2       \* length of the enumerated prompts

\* ------------------------------------------------------ characters, strings
AlnumChars == {"a", "b", "c", "d", "e", "f", "g", "h", "i", "j", "k", "l", "m",
               "n", "o", "p", "q", "r", "s", "t", "u", "v", "w", "x", "y", "z",
               "0", "1", "2", "3", "4", "5", "6", "7", "8", "9"}

\* str.strip() with no argument removes these
Whitespace == {" ", "\n", "\t"}

RECURSIVE LStrip(_)
LStrip(s) == IF s # <<>> /\ Head(s) \in Whitespace THEN LStrip(Tail(s)) ELSE s

RECURSIVE RStrip(_)
RStrip(s) ==
    IF s # <<>> /\ s[Len(s)] \in Whitespace
    THEN RStrip(SubSeq(s, 1, Len(s) - 1)) ELSE s

\* s.strip()
Strip(s) == RStrip(LStrip(s))

\* s[:n]
Take(s, n) == SubSeq(s, 1, IF Len(s) < n THEN Len(s) ELSE n)

\* the slice bound of prompt[:20]
PrefixLen == 20

\* c.isalnum() or c in (' ', '-', '_')
KeepChar(c) == c \in AlnumChars \/ c \in {" ", "-", "_"}

\* "".join(c for c in s if keep(c))
RECURSIVE FilterChars(_)
FilterChars(s) ==
    IF s = <<>> THEN <<>>
    ELSE IF KeepChar(Head(s)) THEN <<Head(s)>> \o FilterChars(Tail(s))
    ELSE FilterChars(Tail(s))

\* s.replace(' ', '_')
ReplaceSpaces(s) == [i \in 1..Len(s) |-> IF s[i] = " " THEN "_" ELSE s[i]]

\* the spaces replaced before the strip, which then finds nothing to remove
CleanPrompt_ReplaceFirst(prompt) ==
    Strip(ReplaceSpaces(FilterChars(Take(prompt, PrefixLen))))

\* clean_prompt of generate_image, after the replace of the next line
CleanPrompt(prompt) == ReplaceSpaces(Strip(FilterChars(Take(prompt, PrefixLen))))

\* f"img_{timestamp}_{clean}.png"
Filename(timestamp, prompt) ==
    [prefix |-> "img_", ts |-> timestamp, clean |-> CleanPrompt(prompt), ext |-> ".png"]

NoName == [prefix |-> "", ts |-> -1, clean |-> <<>>, ext |-> ""]

\* ------------------------------------------------------------ model catalog
\* the MODELS dict, in insertion order: <<display name, identifier>>
MODELS == << <<"FLUX.1-schnell", "black-forest-labs/FLUX.1-schnell">>,
             <<"Stable Diffusion v1.5", "runwayml/stable-diffusion-v1-5">>,
             <<"Stable Diffusion v2.1", "stabilityai/stable-diffusion-2-1">>,
             <<"Stable Diffusion v1.4", "CompVis/stable-diffusion-v1-4">>,
             <<"OpenJourney v4", "prompthero/openjourney-v4">>,
             <<"FLUX.1-dev", "black-forest-labs/FLUX.1-dev">> >>

\* MODELS.keys(), MODELS.values()
DisplayNames == {MODELS[i][1] : i \in 1..Len(MODELS)}
ModelIds     == {MODELS[i][2] : i \in 1..Len(MODELS)}

\* MODELS[name]; a KeyError is the value "KeyError"
ModelsGet(name) ==
    IF name \in DisplayNames
    THEN MODELS[CHOOSE i \in 1..Len(MODELS) : MODELS[i][1] = name][2]
    ELSE "KeyError"

\* get_model_display_name: the first item, in dict order, whose value is model_id
get_model_display_name_FirstKey(model_id) == MODELS[1][1]
get_model_display_name(model_id) ==
    IF \E i \in 1..Len(MODELS) : MODELS[i][2] = model_id
    THEN LET first == CHOOSE i \in 1..Len(MODELS) :
                          /\ MODELS[i][2] = model_id
                          /\ \A j \in 1..(i - 1) : MODELS[j][2] # model_id
         IN  MODELS[first][1]
    ELSE model_id

\* validate_api_token
None == <<"<None>">>
validate_api_token(api_token) == api_token # None /\ Strip(api_token) # <<>>


\* ------------------------------------------------------------------ inputs
UISessions == {"u1"}              \* browser sessions running main()
APICallers == {"c1", "c2"}        \* code calling ImageGenerator directly
Callers    == UISessions \cup APICallers

\* prompts typed into the page: one blank, two with the same sanitized prefix
UIPrompts == { <<" ">>, <<"a">>, <<"a", "!">> }

\* prompts a direct caller passes: two with the same sanitized prefix
DispatchPrompts == { <<"a">>, <<"a", "!">> }

\* values of the HUGGINGFACEHUB_API_TOKEN variable (None: not set) and of the
\* api_token argument
Tokens == { None, <<>>, <<" ">>, <<"t">> }

\* model_id arguments a direct caller passes
DispatchModels == { "custom/model" }

Bitmaps       == {"bmpA", "bmpB"}       \* images the backend returns
NoImage       == "None"
BackendErrors == {"backend error"}      \* str(e) of a failed text_to_image
SaveErrors    == {"io error"}           \* str(e) of a failed image.save
NoFile        == "absent"
Partial       == "partial"              \* a truncated or half-written file

\* characters of the enumerated prompts: one of each class the filter tells apart
Alphabet == {"a", "1", " ", "-", "_", "!", "\n"}

\* all strings over the alphabet of length 0..n
RECURSIVE StringsUpTo(_)
StringsUpTo(n) ==
    IF n = 0 THEN {<<>>}
    ELSE LET shorter == StringsUpTo(n - 1)
         IN  shorter \cup {Append(s, c) : s \in shorter, c \in Alphabet}

\* "a dog! #1 @home"
DogPrompt == <<"a", " ", "d", "o", "g", "!", " ", "#", "1", " ", "@", "h", "o", "m", "e">>

\* "abcdefghijklmnopqrs tuvw": the 20th character is a space
LongPrompt == <<"a", "b", "c", "d", "e", "f", "g", "h", "i", "j", "k", "l", "m", "n",
                "o", "p", "q", "r", "s", " ", "t", "u", "v", "w">>

\* "a! b! c! d! e! f! g! h!": punctuation, and more than 20 characters
PunctPrompt == <<"a", "!", " ", "b", "!", " ", "c", "!", " ", "d", "!", " ", "e", "!",
                 " ", "f", "!", " ", "g", "!", " ", "h", "!">>

\* prompts the filename is computed for
FilenamePrompts == StringsUpTo(MaxLen) \cup {DogPrompt, LongPrompt, PunctPrompt}

\* identifiers the display name is looked up for
LookupIds == ModelIds \cup {"custom/model", "FLUX.1-dev", ""}

Unset == "<unset>"

\* every path generate_image can compute (output_dir is "./outputs" throughout)
Filenames == {Filename(t, p) : t \in 0..MaxClock, p \in UIPrompts \cup DispatchPrompts}

\* image.size
Size(img) == <<512, 512>>

\* ------------------------------------------------------------------- state
VARIABLES
    clock,       \* datetime.now(), in seconds
    envToken,    \* os.environ["HUGGINGFACEHUB_API_TOKEN"]
    files,       \* the output directory: filename -> content
    pc,          \* where each caller is
    api_token,   \* gen.api_token
    prompt,      \* generate_image's prompt
    model_id,    \* generate_image's model_id
    calls,       \* the text_to_image calls of the current dispatch
    image,       \* generate_image's image
    filename,    \* generate_image's filename
    writes,      \* files the current dispatch created or modified
    overwritten, \* another dispatch has since opened the file this one saved
    result,      \* (success, message, image) as returned
    history,     \* st.session_state.history
    count,       \* st.session_state.count
    ui,          \* the last message st.error / st.info / st.success showed
    inPrompt, outFilename, inModelId, outDisplayName   \* arguments and values of
                                                       \* the two pure functions

locals == <<api_token, prompt, model_id, calls, image, filename, writes,
            overwritten, result>>
shared == <<clock, envToken, files>>
pure   == <<inPrompt, outFilename, inModelId, outDisplayName>>
vars   == <<shared, pc, locals, history, count, ui, pure>>

NoResult == [success |-> FALSE, text |-> "", filename |-> NoName,
             size |-> <<0, 0>>, error |-> "", image |-> NoImage]

\* return True, success_message, image
SuccessResult(fname, img) ==
    [success |-> TRUE, text |-> "Image generated successfully", filename |-> fname,
     size |-> Size(img), error |-> "", image |-> img]

\* return False, f"Generation failed: {str(e)}", None
FailureResult(e) ==
    [success |-> FALSE, text |-> "Generation failed", filename |-> NoName,
     size |-> <<0, 0>>, error |-> e, image |-> NoImage]

\* os.getenv("HUGGINGFACEHUB_API_TOKEN", "")
GetEnvToken == IF envToken = None THEN <<>> ELSE envToken

Start ==
    /\ clock = 0
    /\ files = [f \in Filenames |-> NoFile]
    /\ pc = [s \in Callers |-> "idle"]
    /\ api_token = [s \in Callers |-> None]
    /\ prompt = [s \in Callers |-> <<>>]
    /\ model_id = [s \in Callers |-> ""]
    /\ calls = [s \in Callers |-> <<>>]
    /\ image = [s \in Callers |-> NoImage]
    /\ filename = [s \in Callers |-> NoName]
    /\ writes = [s \in Callers |-> 0]
    /\ overwritten = [s \in Callers |-> FALSE]
    /\ result = [s \in Callers |-> NoResult]
    /\ history = [s \in UISessions |-> <<>>]
    /\ count = [s \in UISessions |-> 0]
    /\ ui = [s \in UISessions |-> ""]
    /\ inPrompt = <<>> /\ outFilename = NoName
    /\ inModelId = "" /\ outDisplayName = Unset

\* a process that uses TextToImage.py directly
Init == envToken = None /\ Start

\* the Streamlit process, its environment loaded
InitUI == envToken \in Tokens /\ Start

\* a new ImageGenerator and a new generate_image frame for caller s
NewDispatch(s, tok, p, m) ==
    /\ pc' = [pc EXCEPT ![s] = "init"]
    /\ api_token' = [api_token EXCEPT ![s] = tok]
    /\ prompt' = [prompt EXCEPT ![s] = p]
    /\ model_id' = [model_id EXCEPT ![s] = m]
    /\ calls' = [calls EXCEPT ![s] = <<>>]
    /\ image' = [image EXCEPT ![s] = NoImage]
    /\ filename' = [filename EXCEPT ![s] = NoName]
    /\ writes' = [writes EXCEPT ![s] = 0]
    /\ overwritten' = [overwritten EXCEPT ![s] = FALSE]
    /\ result' = [result EXCEPT ![s] = NoResult]

\* the frame is gone once the script run is over
EndDispatch(s) ==
    /\ pc' = [pc EXCEPT ![s] = "idle"]
    /\ api_token' = [api_token EXCEPT ![s] = None]
    /\ prompt' = [prompt EXCEPT ![s] = <<>>]
    /\ model_id' = [model_id EXCEPT ![s] = ""]
    /\ calls' = [calls EXCEPT ![s] = <<>>]
    /\ image' = [image EXCEPT ![s] = NoImage]
    /\ filename' = [filename EXCEPT ![s] = NoName]
    /\ writes' = [writes EXCEPT ![s] = 0]
    /\ overwritten' = [overwritten EXCEPT ![s] = FALSE]
    /\ result' = [result EXCEPT ![s] = NoResult]

\* the wall clock advances
Tick ==
    /\ clock < MaxClock
    /\ clock' = clock + 1
    /\ UNCHANGED <<envToken, files, pc, locals, history, count, ui, pure>>

\* main(): the Generate button, up to the construction of the ImageGenerator
Generate(s, p) ==
    /\ pc[s] = "idle"
    /\ count[s] < MaxCount        \* the session is followed up to MaxCount images
    /\ IF Strip(p) = <<>>
       THEN /\ ui' = [ui EXCEPT ![s] = "Please enter a prompt."]
            /\ UNCHANGED <<pc, locals>>
       ELSE IF ~validate_api_token(GetEnvToken)
       THEN /\ ui' = [ui EXCEPT ![s] = "Invalid HuggingFace API token"]
            /\ UNCHANGED <<pc, locals>>
       ELSE /\ ui' = [ui EXCEPT ![s] = "Generating image"]
            /\ NewDispatch(s, GetEnvToken, p, ModelsGet(MODELS[1][1]))
    /\ UNCHANGED <<shared, history, count, pure>>

\* main(): the Clear button
Clear(s) ==
    /\ pc[s] = "idle"
    /\ history' = [history EXCEPT ![s] = <<>>]
    /\ UNCHANGED <<shared, pc, locals, count, ui, pure>>

\* a direct caller: ImageGenerator(api_token, "./outputs").generate_image(prompt, model_id)
Dispatch(c, tok, p, m) ==
    /\ pc[c] \in {"idle", "returned", "raised"}
    /\ NewDispatch(c, tok, p, m)
    /\ UNCHANGED <<shared, history, count, ui, pure>>

\* ImageGenerator.__init__: os.makedirs(output_dir, exist_ok=True), outside any try
ImageGenerator_init(s) ==
    /\ pc[s] = "init"
    /\ \E made \in BOOLEAN :
          pc' = [pc EXCEPT ![s] = IF made THEN "ready" ELSE "raised"]
    /\ UNCHANGED <<shared, locals, history, count, ui, pure>>

\* the call made with the catalog's default model, whatever model_id is
TextToImageCall_DefaultModel(s) == [prompt |-> prompt[s], model |-> MODELS[1][2]]

\* the arguments of client.text_to_image(prompt, model=model_id)
TextToImageCall(s) == [prompt |-> prompt[s], model |-> model_id[s]]

\* a backend error retried instead of returned
CallBackend_Retry(s) ==
    /\ pc[s] = "ready"
    /\ calls' = [calls EXCEPT ![s] = Append(@, TextToImageCall(s))]
    /\ \E outcome \in Bitmaps \cup BackendErrors :
          IF outcome \in Bitmaps
          THEN /\ image' = [image EXCEPT ![s] = outcome]
               /\ filename' = [filename EXCEPT ![s] = Filename(clock, prompt[s])]
               /\ pc' = [pc EXCEPT ![s] = "saving"]
               /\ UNCHANGED result
          ELSE IF Len(calls[s]) = 0
          THEN UNCHANGED <<pc, result, image, filename>>
          ELSE /\ result' = [result EXCEPT ![s] = FailureResult(outcome)]
               /\ pc' = [pc EXCEPT ![s] = "returned"]
               /\ UNCHANGED <<image, filename>>
    /\ UNCHANGED <<shared, api_token, prompt, model_id, writes, overwritten,
                   history, count, ui, pure>>

\* generate_image: _get_client(), text_to_image, and on its return the filename
CallBackend(s) ==
    /\ pc[s] = "ready"
    /\ calls' = [calls EXCEPT ![s] = Append(@, TextToImageCall(s))]
    /\ \E outcome \in Bitmaps \cup BackendErrors :
          IF outcome \in Bitmaps
          THEN /\ image' = [image EXCEPT ![s] = outcome]
               /\ filename' = [filename EXCEPT ![s] = Filename(clock, prompt[s])]
               /\ pc' = [pc EXCEPT ![s] = "saving"]
               /\ UNCHANGED result
          ELSE /\ result' = [result EXCEPT ![s] = FailureResult(outcome)]
               /\ pc' = [pc EXCEPT ![s] = "returned"]
               /\ UNCHANGED <<image, filename>>
    /\ UNCHANGED <<shared, api_token, prompt, model_id, writes, overwritten,
                   history, count, ui, pure>>

\* the file a dispatch has saved and not yet seen replaced
SavedPath(t) ==
    IF pc[t] = "saved" THEN filename[t]
    ELSE IF pc[t] = "returned" /\ result[t].success THEN result[t].filename
    ELSE NoName

\* a save that skips a file that is already there
Save_KeepExisting(s) ==
    /\ pc[s] = "saving"
    /\ files' = [files EXCEPT ![filename[s]] = IF @ = NoFile THEN image[s] ELSE @]
    /\ writes' = [writes EXCEPT ![s] = @ + 1]
    /\ overwritten' = [t \in Callers |->
          IF t = s THEN FALSE ELSE overwritten[t] \/ SavedPath(t) = filename[s]]
    /\ pc' = [pc EXCEPT ![s] = "saved"]
    /\ UNCHANGED <<clock, envToken, api_token, prompt, model_id, calls, result,
                   image, filename, history, count, ui, pure>>

\* a save that writes a temporary file next to the target as well
Save_WriteThenFail(s) ==
    /\ pc[s] = "saving"
    /\ \E outcome \in {"saved", "unchanged"} :
          /\ files' = [files EXCEPT ![filename[s]] =
                          IF outcome = "saved" THEN image[s] ELSE @]
          /\ writes' = [writes EXCEPT ![s] = @ + 2]
          /\ overwritten' = [t \in Callers |->
                IF t = s THEN FALSE ELSE overwritten[t] \/ SavedPath(t) = filename[s]]
          /\ IF outcome = "saved"
             THEN /\ pc' = [pc EXCEPT ![s] = "saved"]
                  /\ UNCHANGED <<result, image, filename>>
             ELSE /\ \E e \in SaveErrors :
                        result' = [result EXCEPT ![s] = FailureResult(e)]
                  /\ image' = [image EXCEPT ![s] = NoImage]
                  /\ filename' = [filename EXCEPT ![s] = NoName]
                  /\ pc' = [pc EXCEPT ![s] = "returned"]
    /\ UNCHANGED <<clock, envToken, api_token, prompt, model_id, calls,
                   history, count, ui, pure>>

\* generate_image: image.save(filepath).  It opens the file "w+b" and writes; when
\* it raises, the file is as before (the open failed, or a file it created was
\* removed again) or is left truncated or half-written.
Save(s) ==
    /\ pc[s] = "saving"
    /\ \E outcome \in {"saved", "unchanged", "partial"} :
          /\ IF outcome = "unchanged"
             THEN UNCHANGED <<files, writes, overwritten>>
             ELSE /\ files' = [files EXCEPT ![filename[s]] =
                                  IF outcome = "saved" THEN image[s] ELSE Partial]
                  /\ writes' = [writes EXCEPT ![s] = @ + 1]
                  /\ overwritten' = [t \in Callers |->
                        IF t = s THEN FALSE
                        ELSE overwritten[t] \/ SavedPath(t) = filename[s]]
          /\ IF outcome = "saved"
             THEN /\ pc' = [pc EXCEPT ![s] = "saved"]
                  /\ UNCHANGED <<result, image, filename>>
             ELSE /\ \E e \in SaveErrors :
                        result' = [result EXCEPT ![s] = FailureResult(e)]
                  /\ image' = [image EXCEPT ![s] = NoImage]
                  /\ filename' = [filename EXCEPT ![s] = NoName]
                  /\ pc' = [pc EXCEPT ![s] = "returned"]
    /\ UNCHANGED <<clock, envToken, api_token, prompt, model_id, calls,
                   history, count, ui, pure>>

\* the return moved above the save
Return_BeforeSave(s) ==
    /\ pc[s] \in {"saving", "saved"}
    /\ result' = [result EXCEPT ![s] = SuccessResult(filename[s], image[s])]
    /\ image' = [image EXCEPT ![s] = NoImage]
    /\ filename' = [filename EXCEPT ![s] = NoName]
    /\ pc' = [pc EXCEPT ![s] = "returned"]
    /\ UNCHANGED <<shared, api_token, prompt, model_id, calls,
                   writes, overwritten, history, count, ui, pure>>

\* generate_image: return True, success_message, image; its frame ends
Return(s) ==
    /\ pc[s] = "saved"
    /\ result' = [result EXCEPT ![s] = SuccessResult(filename[s], image[s])]
    /\ image' = [image EXCEPT ![s] = NoImage]
    /\ filename' = [filename EXCEPT ![s] = NoName]
    /\ pc' = [pc EXCEPT ![s] = "returned"]
    /\ UNCHANGED <<shared, api_token, prompt, model_id, calls,
                   writes, overwritten, history, count, ui, pure>>

\* the dict main() inserts into the history
HistoryEntry(s) ==
    [img |-> result[s].image, prompt |-> prompt[s], model |-> MODELS[1][1], ts |-> clock]

\* history.append(entry)
HistoryInsert_Append(h, entry) == h \o <<entry>>

\* history.insert(0, entry)
HistoryInsert(h, entry) == <<entry>> \o h

\* main(): what follows generate_image's return
Display(s) ==
    /\ pc[s] = "returned"
    /\ IF ~result[s].success
       THEN /\ ui' = [ui EXCEPT ![s] = "Generation failed"]
            /\ UNCHANGED <<history, count>>
       ELSE /\ ui' = [ui EXCEPT ![s] = "Image created!"]
            /\ history' = [history EXCEPT ![s] = HistoryInsert(@, HistoryEntry(s))]
            /\ count' = [count EXCEPT ![s] = @ + 1]
    /\ EndDispatch(s)
    /\ UNCHANGED <<shared, pure>>

\* main(): the exception of ImageGenerator(...) ends the script run
ScriptAborted(s) ==
    /\ pc[s] = "raised"
    /\ ui' = [ui EXCEPT ![s] = "Exception"]
    /\ EndDispatch(s)
    /\ UNCHANGED <<shared, history, count, pure>>

\* TextToImage.py under its direct callers
Next ==
    \/ Tick
    \/ \E c \in APICallers, tok \in Tokens, p \in DispatchPrompts, m \in DispatchModels :
          Dispatch(c, tok, p, m)
    \/ \E c \in APICallers : ImageGenerator_init(c)
    \/ \E c \in APICallers : CallBackend(c)
    \/ \E c \in APICallers : Save(c)
    \/ \E c \in APICallers : Return(c)

Spec == Init /\ [][Next]_vars

\* app.py: one browser session
NextUI ==
    \/ Tick
    \/ \E s \in UISessions, p \in UIPrompts : Generate(s, p)
    \/ \E s \in UISessions : Clear(s)
    \/ \E s \in UISessions : ImageGenerator_init(s)
    \/ \E s \in UISessions : CallBackend(s)
    \/ \E s \in UISessions : Save(s)
    \/ \E s \in UISessions : Return(s)
    \/ \E s \in UISessions : Display(s)
    \/ \E s \in UISessions : ScriptAborted(s)

SpecUI == InitUI /\ [][NextUI]_vars

\* ------------------------------------------------- the two pure functions
StartPure ==
    /\ clock = 0
    /\ envToken = None
    /\ files = [f \in Filenames |-> NoFile]
    /\ pc = [s \in Callers |-> "idle"]
    /\ api_token = [s \in Callers |-> None]
    /\ prompt = [s \in Callers |-> <<>>]
    /\ model_id = [s \in Callers |-> ""]
    /\ calls = [s \in Callers |-> <<>>]
    /\ image = [s \in Callers |-> NoImage]
    /\ filename = [s \in Callers |-> NoName]
    /\ writes = [s \in Callers |-> 0]
    /\ overwritten = [s \in Callers |-> FALSE]
    /\ result = [s \in Callers |-> NoResult]
    /\ history = [s \in UISessions |-> <<>>]
    /\ count = [s \in UISessions |-> 0]
    /\ ui = [s \in UISessions |-> ""]
    /\ inPrompt \in FilenamePrompts /\ outFilename = NoName
    /\ inModelId \in LookupIds /\ outDisplayName = Unset

\* lines 98-100 of generate_image on inPrompt
ApplyFilename ==
    /\ outFilename = NoName
    /\ outFilename' = Filename(clock, inPrompt)
    /\ UNCHANGED <<shared, pc, locals, history, count, ui, inPrompt, inModelId,
                   outDisplayName>>

\* get_model_display_name(inModelId)
ApplyDisplayName ==
    /\ outDisplayName = Unset
    /\ outDisplayName' = get_model_display_name(inModelId)
    /\ UNCHANGED <<shared, pc, locals, history, count, ui, inPrompt, inModelId,
                   outFilename>>

NextPure ==
    \/ Tick
    \/ ApplyFilename
    \/ ApplyDisplayName

SpecPure == StartPure /\ [][NextPure]_vars

\* ------------------------------------------------------------------ claims
Returned(s)  == pc[s] = "returned"
Succeeded(s) == Returned(s) /\ result[s].success
Failed(s)    == Returned(s) /\ ~result[s].success

\* C1: a dispatch whose credential is None, empty or whitespace-only returns a
\* failure, never calls text_to_image and writes no file.
C1_BlankCredentialFailsClosed ==
    \A s \in Callers :
        (pc[s] # "idle" /\ ~validate_api_token(api_token[s])) =>
            /\ calls[s] = <<>>
            /\ writes[s] = 0
            /\ (Returned(s) => ~result[s].success)

\* C2: no failure escapes the dispatcher: a backend error, a failure to create the
\* output directory and a failure to write the file all reach the caller as
\* (success = false, message with the error, no bitmap), and nothing is raised.
C2_NoFailureEscapes ==
    \A s \in Callers :
        /\ pc[s] # "raised"
        /\ Failed(s) =>
              /\ result[s].error \in BackendErrors \cup SaveErrors
              /\ result[s].image = NoImage

\* C3 as stated: at the moment generate_image returns success, the file at the path
\* of the message holds the returned bitmap.
C3_FileHoldsBitmapAtReturn ==
    [][\A s \in Callers :
          (pc[s] = "saved" /\ pc'[s] = "returned") =>
              /\ result'[s].success
              /\ files'[result'[s].filename] = result'[s].image]_vars

\* C3 as amended: a dispatch that has returned success has saved its bitmap (its
\* one write is done), a file exists at the path of the message, and the file holds
\* the returned bitmap unless another dispatch has opened the same path since.
C3_SavedBeforeReturn ==
    \A s \in Callers :
        Succeeded(s) =>
            /\ writes[s] = 1
            /\ result[s].image \in Bitmaps
            /\ files[result[s].filename] # NoFile
            /\ (~overwritten[s] => files[result[s].filename] = result[s].image)

C3_Witness ==
    \E s \in Callers :
        /\ Succeeded(s)
        /\ ~overwritten[s]
        /\ files[result[s].filename] = result[s].image

\* C4 as stated: a dispatch writes exactly one file if it returns success and none
\* if it returns failure.
C4_OneWriteOrNone ==
    \A s \in Callers :
        Returned(s) => writes[s] = (IF result[s].success THEN 1 ELSE 0)

\* C4 as amended: a dispatch writes exactly one file if it returns success, none
\* if it fails at the backend, and at most one (the file at its own path, left
\* truncated or half-written) if it fails at the save.
C4_WritesPerDispatch ==
    \A s \in Callers :
        /\ Succeeded(s) => writes[s] = 1
        /\ (Failed(s) /\ result[s].error \in BackendErrors) => writes[s] = 0
        /\ (Failed(s) /\ result[s].error \in SaveErrors) => writes[s] \in {0, 1}

C4_Witness ==
    \E s \in Callers :
        /\ Failed(s)
        /\ result[s].error \in SaveErrors
        /\ writes[s] = 1
        /\ \E f \in Filenames : files[f] = Partial

\* the parameters the text-to-image call is said to carry
RequestFields == {"prompt", "negative_prompt", "guidance_scale", "num_inference_steps",
                  "width", "height", "seed", "model"}

C6_SingleBackendCall ==
    \A s \in Callers :
        /\ Len(calls[s]) <= 1
        /\ (Failed(s) /\ result[s].error \in BackendErrors) =>
              /\ Len(calls[s]) = 1
              /\ result[s].image = NoImage
              /\ writes[s] = 0
        /\ Returned(s) => Len(calls[s]) = 1

C6_Witness ==
    \E s \in Callers :
        /\ Failed(s)
        /\ result[s].error \in BackendErrors
        /\ Len(calls[s]) = 1

\* the sanitized prefix as the claim words it: of the first 20 characters keep the
\* alphanumerics, spaces, hyphens and underscores, cut at the first and the last
\* character that is not whitespace, put an underscore for every space
Sanitized(p) ==
    LET first20 == [i \in 1..(IF Len(p) < 20 THEN Len(p) ELSE 20) |-> p[i]]
        allowed(c) == c \in AlnumChars \cup {" ", "-", "_"}
        kept    == SelectSeq(first20, allowed)
        solid   == {i \in 1..Len(kept) : kept[i] \notin Whitespace}
        lo      == CHOOSE i \in solid : \A j \in solid : i <= j
        hi      == CHOOSE i \in solid : \A j \in solid : j <= i
    IN  IF solid = {} THEN <<>>
        ELSE [i \in 1..(hi - lo + 1) |->
                 IF kept[lo + i - 1] = " " THEN "_" ELSE kept[lo + i - 1]]

IsAlnum(c) == c \in AlnumChars

\* C7: the filename is img_<timestamp>_<s>.png with <s> the sanitized first 20
\* characters of the prompt: only alphanumerics, hyphens and underscores, at most
\* 20 of them, every alphanumeric of the prefix kept in order, and
\* "a dog! #1 @home" gives a_dog_1_home.
C7_FilenameSanitized ==
    outFilename # NoName =>
        LET s == outFilename.clean IN
        /\ outFilename.prefix = "img_" /\ outFilename.ext = ".png"
        /\ outFilename.ts \in 0..clock
        /\ s = Sanitized(inPrompt)
        /\ Len(s) <= 20
        /\ \A i \in 1..Len(s) : s[i] \in AlnumChars \cup {"-", "_"}
        /\ SelectSeq(s, IsAlnum) = SelectSeq(Take(inPrompt, 20), IsAlnum)
        /\ inPrompt = DogPrompt =>
              s = <<"a", "_", "d", "o", "g", "_", "1", "_", "h", "o", "m", "e">>

C7_Witness ==
    /\ outFilename # NoName
    /\ inPrompt = LongPrompt
    /\ Len(outFilename.clean) = 19

\* C8: for an identifier of the catalog, the display name get_model_display_name
\* gives maps back to it through MODELS; any other identifier is returned itself.
C8_DisplayNameRoundTrip ==
    outDisplayName # Unset =>
        /\ inModelId \in ModelIds =>
              /\ outDisplayName \in DisplayNames
              /\ ModelsGet(outDisplayName) = inModelId
        /\ inModelId \notin ModelIds => outDisplayName = inModelId

C8_Witness ==
    /\ outDisplayName = "Stable Diffusion v2.1"
    /\ inModelId = "stabilityai/stable-diffusion-2-1"

\* C9: two dispatches that returned success with the same path (same second, same
\* sanitized prefix) left one file there: the later save replaced the earlier one
\* without an error, and the file holds the bitmap of whoever saved last.
C9_CollisionOverwrites ==
    \A s, t \in Callers :
        (s # t /\ Succeeded(s) /\ Succeeded(t)
              /\ result[s].filename = result[t].filename) =>
            /\ overwritten[s] \/ overwritten[t]
            /\ files[result[s].filename] # NoFile
            /\ (~overwritten[s] => files[result[s].filename] = result[s].image)
            /\ (~overwritten[t] => files[result[t].filename] = result[t].image)

C9_Witness ==
    \E s, t \in Callers :
        /\ s # t /\ Succeeded(s) /\ Succeeded(t)
        /\ result[s].filename = result[t].filename
        /\ prompt[s] # prompt[t]
        /\ result[s].image # result[t].image
        /\ overwritten[s] /\ ~overwritten[t]
        /\ files[result[t].filename] = result[t].image

\* C10: the history changes in two ways only: a successful generation inserts its
\* entry at index 0 and keeps the others in order, and Clear empties the list; a
\* rejected or failed Generate and every other step leave it as it is.
C10_HistorySteps ==
    [][\A s \in UISessions :
          IF pc[s] = "returned" /\ pc'[s] = "idle" /\ result[s].success
          THEN /\ Len(history'[s]) = Len(history[s]) + 1
               /\ history'[s][1].img = result[s].image
               /\ history'[s][1].prompt = prompt[s]
               /\ history'[s][1].model = get_model_display_name(model_id[s])
               /\ \A i \in 1..Len(history[s]) : history'[s][i + 1] = history[s][i]
          ELSE \/ history'[s] = history[s]
               \/ /\ history'[s] = <<>>
                  /\ pc[s] = "idle" /\ pc'[s] = "idle"
                  /\ ui'[s] = ui[s]]_vars

C10_Witness ==
    \E s \in UISessions :
        /\ Len(history[s]) = 2
        /\ history[s][1].ts > history[s][2].ts
        /\ history[s][1].img # history[s][2].img
        /\ history[s][1].prompt # history[s][2].prompt

====
